---- MODULE Spec2Model ----
(***************************************************************************)
(* Model of the conversation browser: the message-grouping function        *)
(* (lib/formatter), the log parser loadConversationMessages (lib/history)  *)
(* the selection/scroll hook useSelectableList, the summariser             *)
(* parseConversationFile with the sidechain loader, the index builder      *)
(* loadConversations, the navigation stack of App with the load of         *)
(* ConversationDetail, and the measured item heights of the detail view.   *)
(*                                                                         *)
(* Arrays are 0-based in the source and 1-based here: a source index k is  *)
(* the model index k+1 for message arrays; selectedIndex and the height    *)
(* map keep the source's 0-based numbering.                                *)
(***************************************************************************)
EXTENDS Integers, Sequences, FiniteSets, TLC

\* ------------------------------------------------------------------ bounds
MaxMsgs == 4        \* longest message sequence handed to groupMessages
MaxLines == 5       \* longest event file read by loadConversationMessages
MaxItems == 3       \* largest itemCount of the conversation list
MaxDetailItems == 2 \* largest itemCount of the conversation detail
MaxHeight == 2      \* largest measured item height
MaxViewport == 2    \* largest viewportHeight
MaxFileLines == 5   \* longest event file handed to parseConversationFile
MaxIndexFiles == 3  \* most conversation files met by one loadConversations
MaxTimestamp == 2   \* latest lastTimestamp of a conversation
MaxSkippedDirs == 1 \* most project directories that cannot be listed
MaxDepth == 2       \* deepest navigation stack: a conversation and a sidechain
MaxLoaded == 2       \* longest message array whose collapsed state is set
MaxPasses == 4      \* effect passes followed after one event

VARIABLES
    \* --- grouping (lib/formatter)
    msgs,            \* the Message[] handed to groupMessages
    groups,          \* result of groupMessages, groups of message indices
    indexedGroups,   \* result of the IndexedMessage variant of groupMessages
    grouped,         \* TRUE once groupMessages has returned
    \* --- parser (lib/history loadConversationMessages)
    entry,           \* the line processed last
    lineCount,       \* number of lines processed so far
    messages,        \* emitted message stream (message types)
    messageAgentIds, \* Map<number, string>: 0-based message index -> agentId
    skipNextAssistant,
    lastAssistantIndex,
    indexed,         \* what parseConversationFile counts on the same lines
    \* --- viewport (hooks/useSelectableList)
    itemCount,
    viewportHeight,
    heights,         \* Map<number, number> of measured heights, 0-based keys
    selectedIndex,
    scrollY,
    savedState,      \* StackEntry.savedState of the conversation shown
    effects,         \* "pending" | "ran" | "idle": position of the effect pass
    lastEvent,       \* name of the last event handled
    \* --- summariser (lib/history parseConversationFile, loadSidechainConversation)
    file,            \* the lines of the event file
    conversation,    \* result of parseConversationFile(file)
    sidechain,       \* result of loadSidechainConversation on the same lines
    summarised,      \* TRUE once both have returned
    \* --- index (lib/history loadConversations)
    conversations,   \* the array loadConversations fills and returns
    scanned,         \* the conversation files met so far, in scan order
    skippedDirs,     \* number of project directories readdir failed on
    indexPhase,      \* "idle" | "start" | "scan" | "failed" | "done"
    \* --- navigation (components/App, components/ConversationDetail)
    view,            \* 'list' | 'detail'
    conversationStack, \* StackEntry[]: conversation (its level) and savedState
    loading,         \* ConversationDetail's loading state
    error,           \* TRUE when ConversationDetail's error state is set
    groupsOf,        \* the conversation whose groups are in state, 0: none
    loads,           \* conversations with a loadConversationMessages in flight
    opening,         \* the handleOpenSidechain awaiting its file
    itemCounts,      \* number of list items of the conversation and of a sidechain
    trip,            \* the viewport at the last push and how far the way back is
    \* --- initial collapse (ConversationDetail load effect)
    loadedMsgs,      \* the messages loadConversationMessages resolved with
    collapsedMessages, \* Set<number> of message indices, 0-based
    collapsed,       \* Set<number> of the inline-viewport ConversationDetail
    detailLoaded,    \* TRUE once the load effect has set the state
    \* --- measured heights (ref callbacks)
    itemRefs,        \* Map<number, node>: the mounted node of each item
    \* --- the App that keeps listState (components/App, ConversationList)
    listState,       \* { selectedIndex, scrollY } handed over by onSelect
    selectedConversation, \* index of the conversation shown, -1: null
    boxHeights       \* height={itemHeight} of the box of each conversation

groupVars == <<msgs, groups, indexedGroups, grouped>>
parserVars == <<entry, lineCount, messages, messageAgentIds,
                skipNextAssistant, lastAssistantIndex, indexed>>
viewVars == <<itemCount, viewportHeight, heights, selectedIndex, scrollY,
              savedState, effects, lastEvent>>
summaryVars == <<file, conversation, sidechain, summarised>>
indexVars == <<conversations, scanned, skippedDirs, indexPhase>>
navVars == <<view, conversationStack, loading, error, groupsOf, loads, opening,
             itemCounts, trip>>
collapseVars == <<loadedMsgs, collapsedMessages, collapsed, detailLoaded, itemRefs>>
listAppVars == <<listState, selectedConversation, boxHeights>>
vars == <<groupVars, parserVars, viewVars, summaryVars, indexVars, navVars,
          collapseVars, listAppVars>>

\* ------------------------------------------------------------- utilities
Max(a, b) == IF a >= b THEN a ELSE b
Min(a, b) == IF a <= b THEN a ELSE b

RECURSIVE Flatten(_)
Flatten(ss) == IF ss = <<>> THEN <<>> ELSE Head(ss) \o Flatten(Tail(ss))

\* ================================================================ GROUPING
BlockTypes == {"text", "thinking", "tool_use"}

\* message.content is a plain string or an array of content blocks; an array
\* is kept as the set of its block types (the code only asks .some(type)).
StringContent == [isArray |-> FALSE, blocks |-> {}]
ArrayContents == [isArray : {TRUE}, blocks : SUBSET BlockTypes]

Message == [type : {"user"}, content : {StringContent}]
           \cup [type : {"assistant"}, content : {StringContent} \cup ArrayContents]

hasToolUse(message) ==
    IF message.type = "user" THEN FALSE
    ELSE IF ~message.content.isArray THEN FALSE
    ELSE "tool_use" \in message.content.blocks

isThinkingOnly(message) ==
    IF message.type = "user" THEN FALSE
    ELSE IF ~message.content.isArray THEN FALSE
    ELSE "thinking" \in message.content.blocks
         /\ ~("text" \in message.content.blocks \/ "tool_use" \in message.content.blocks)

\* slip: the type test is missing, the run takes the rest of the input
runEndAtEnd(m, i) == Len(m) + 1

\* while (i < messages.length && messages[i].type === 'assistant') i++
\* returns the first index after the assistant run that starts at i
RECURSIVE runEnd(_, _)
runEnd(m, i) ==
    IF i <= Len(m) /\ m[i].type = "assistant" THEN runEnd(m, i + 1) ELSE i

\* for (j = run.length-1; j >= 0; j--) if (hasToolUse(run[j])) ...
\* position in the run (1-based) of the last tool_use message, 0 for none
RECURSIVE lastToolIndex(_, _, _)
lastToolIndex(m, assistantRun, j) ==
    IF j = 0 THEN 0
    ELSE IF hasToolUse(m[assistantRun[j]]) THEN j
    ELSE lastToolIndex(m, assistantRun, j - 1)

\* slip: the boundary is not extended over thinking-only messages
operatingEndAtLastTool(m, assistantRun, j) == j

\* slip: the break is missing, the boundary runs to the end of the run
operatingEndAtRunEnd(m, assistantRun, j) == Len(assistantRun)

\* for (j = lastToolIndex+1; ...) if (isThinkingOnly) operatingEndIndex = j else break
RECURSIVE operatingEndIndex(_, _, _)
operatingEndIndex(m, assistantRun, j) ==
    IF j + 1 <= Len(assistantRun) /\ isThinkingOnly(m[assistantRun[j + 1]])
    THEN operatingEndIndex(m, assistantRun, j + 1)
    ELSE j

\* slip: slice(0, operatingEndIndex) leaves the boundary message out
toolGroupWithoutBoundary(assistantRun, opEnd) == SubSeq(assistantRun, 1, opEnd - 1)

\* assistantRun.slice(0, operatingEndIndex + 1)
toolGroup(assistantRun, opEnd) == SubSeq(assistantRun, 1, opEnd)

soloGroups(s) == [k \in 1..Len(s) |-> <<s[k]>>]

\* the groups pushed for one assistant run
runGroups(m, assistantRun) ==
    LET lt == lastToolIndex(m, assistantRun, Len(assistantRun)) IN
    IF lt = 0
    THEN soloGroups(assistantRun)
    ELSE LET opEnd == operatingEndIndex(m, assistantRun, lt) IN
         <<toolGroup(assistantRun, opEnd)>>
         \o soloGroups(SubSeq(assistantRun, opEnd + 1, Len(assistantRun)))

RECURSIVE groupScan(_, _, _)
groupScan(m, i, acc) ==
    IF i > Len(m) THEN acc
    ELSE IF m[i].type = "user"
    THEN groupScan(m, i + 1, Append(acc, <<i>>))
    ELSE LET e == runEnd(m, i)
             assistantRun == [k \in 1..(e - i) |-> i + k - 1]
         IN groupScan(m, e, acc \o runGroups(m, assistantRun))

groupMessages(m) == groupScan(m, 1, <<>>)

\* ---- the IndexedMessage variant (lib/formatter.tsx)
hasTextContent(message) ==
    IF message.type = "user" THEN TRUE
    ELSE IF ~message.content.isArray THEN TRUE   \* non-blank string content
    ELSE "text" \in message.content.blocks

\* for (i = 0; i < run.length; i++) if (!hasTextContent(run[i])) lastToolIdx = i
RECURSIVE lastToolIdx(_, _, _, _)
lastToolIdx(m, assistantRun, i, found) ==
    IF i > Len(assistantRun) THEN found
    ELSE lastToolIdx(m, assistantRun, i + 1,
                     IF ~hasTextContent(m[assistantRun[i]]) THEN i ELSE found)

flushAssistantRun(m, assistantRun) ==
    IF Len(assistantRun) = 0 THEN <<>>
    ELSE LET lt == lastToolIdx(m, assistantRun, 1, 0) IN
         IF lt >= 1
         THEN <<SubSeq(assistantRun, 1, lt)>>
              \o soloGroups(SubSeq(assistantRun, lt + 1, Len(assistantRun)))
         ELSE soloGroups(assistantRun)

RECURSIVE indexedScan(_, _, _, _)
indexedScan(m, i, assistantRun, acc) ==
    IF i > Len(m) THEN acc \o flushAssistantRun(m, assistantRun)
    ELSE IF m[i].type = "user"
    THEN indexedScan(m, i + 1, <<>>,
                     Append(acc \o flushAssistantRun(m, assistantRun), <<i>>))
    ELSE indexedScan(m, i + 1, Append(assistantRun, i), acc)

groupMessagesIndexed(m) == indexedScan(m, 1, <<>>, <<>>)

MessageSeqs(max) == UNION {[1..n -> Message] : n \in 0..max}

GroupIdle == msgs = <<>> /\ groups = <<>> /\ indexedGroups = <<>> /\ grouped = FALSE

GroupInit == msgs \in MessageSeqs(MaxMsgs) /\ groups = <<>> /\ indexedGroups = <<>>
             /\ grouped = FALSE

\* ConversationDetail: groups = groupMessages(messages)
Group ==
    /\ ~grouped
    /\ groups' = groupMessages(msgs)
    /\ indexedGroups' = groupMessagesIndexed(msgs)
    /\ grouped' = TRUE
    /\ UNCHANGED msgs

\* ================================================================== PARSER
NoAgent == "none"
AgentIds == {"X", "Y"}

\* One line of the file.  kind "malformed" is a line JSON.parse rejects.
\* text abstracts extractTextContent(entry.message.content):
\*   "empty"  - textContent.trim() is empty
\*   "hidden" - isHiddenCommandMessage(textContent) is true
\*   "plain"  - any other text
Entry ==
    [kind : {"user"}, hasMessage : BOOLEAN, isMeta : BOOLEAN,
     agentId : AgentIds \cup {NoAgent}, text : {"empty", "hidden", "plain"}]
    \cup [kind : {"assistant"}, hasMessage : BOOLEAN, isMeta : BOOLEAN,
          agentId : {NoAgent}, text : {"plain"}]
    \cup [kind : {"summary", "malformed"}, hasMessage : {FALSE}, isMeta : {FALSE},
          agentId : {NoAgent}, text : {"empty"}]

NoEntry == [kind |-> "none", hasMessage |-> FALSE, isMeta |-> FALSE,
            agentId |-> NoAgent, text |-> "empty"]

isHiddenCommandMessage(textContent) == textContent = "hidden"

\* Map.set(k, v)
MapSet(map, k, v) == [x \in DOMAIN map \cup {k} |-> IF x = k THEN v ELSE map[x]]

\* slip: the length is taken instead of the last index
indexAfterPushOffByOne(newMessages) == Len(newMessages)

\* slip: the index is taken before the push
indexAfterPushBeforePush(newMessages) == Len(newMessages) - 2

\* lastAssistantIndex = messages.length - 1, taken right after the push
indexAfterPush(newMessages) == Len(newMessages) - 1

\* extractUserMessage(extractTextContent(content)): a text made of command
\* tags or of nothing has no real user content
cleanTextOf(e) == IF e.text = "plain" THEN "hello" ELSE "null"

\* parseConversationFile on the line: messageCount++ for every user or
\* assistant event, firstUserMessage from the first user text that is left
countLine(acc, e) ==
    IF e.kind \in {"user", "assistant"}
    THEN [messageCount |-> acc.messageCount + 1,
          firstUserMessage |->
              IF e.kind = "user" /\ e.hasMessage /\ cleanTextOf(e) # "null"
                 /\ acc.firstUserMessage = "null"
              THEN cleanTextOf(e) ELSE acc.firstUserMessage]
    ELSE acc

ParserIdle ==
    /\ entry = NoEntry /\ lineCount = 0 /\ messages = <<>>
    /\ messageAgentIds = <<>> /\ skipNextAssistant = FALSE
    /\ lastAssistantIndex = -1
    /\ indexed = [messageCount |-> 0, firstUserMessage |-> "null"]

\* state at the top of the for loop, before the first line
ParserInit == ParserIdle

\* a user line that has a message field
readUser(e) ==
    IF e.isMeta
    THEN UNCHANGED <<messages, messageAgentIds, skipNextAssistant, lastAssistantIndex>>
    ELSE /\ messageAgentIds' =
                IF e.agentId # NoAgent /\ lastAssistantIndex >= 0
                THEN MapSet(messageAgentIds, lastAssistantIndex, e.agentId)
                ELSE messageAgentIds
         /\ IF e.text # "empty"
            THEN IF isHiddenCommandMessage(e.text)
                 THEN /\ skipNextAssistant' = TRUE
                      /\ UNCHANGED messages
                 ELSE /\ messages' = Append(messages, "user")
                      /\ UNCHANGED skipNextAssistant
            ELSE UNCHANGED <<messages, skipNextAssistant>>
         /\ UNCHANGED lastAssistantIndex

\* an assistant line that has a message field
readAssistant(e) ==
    IF skipNextAssistant
    THEN /\ skipNextAssistant' = FALSE
         /\ UNCHANGED <<messages, messageAgentIds, lastAssistantIndex>>
    ELSE /\ messages' = Append(messages, "assistant")
         /\ lastAssistantIndex' = indexAfterPush(messages')
         /\ UNCHANGED <<messageAgentIds, skipNextAssistant>>

\* one iteration of `for (const line of lines)` in loadConversationMessages,
\* with the count parseConversationFile keeps of the same line
ReadLine ==
    /\ lineCount < MaxLines
    /\ \E e \in Entry :
        /\ entry' = e
        /\ lineCount' = lineCount + 1
        /\ indexed' = countLine(indexed, e)
        /\ IF e.kind = "user" /\ e.hasMessage THEN readUser(e)
           ELSE IF e.kind = "assistant" /\ e.hasMessage THEN readAssistant(e)
           ELSE UNCHANGED <<messages, messageAgentIds, skipNextAssistant,
                            lastAssistantIndex>>

\* ================================================================ VIEWPORT
defaultItemHeight == 1

\* Math.floor(viewportHeight / 0) is Infinity; any count above every index
\* behaves the same under the clamps below
Infinity == 1000

\* hs.get(index) ?? defaultItemHeight, for the heights map hs of a render
getHeightOf(hs, index) ==
    IF index \in DOMAIN hs THEN hs[index] ELSE defaultItemHeight

\* heights.get(index) ?? defaultItemHeight
getHeight(index) == getHeightOf(heights, index)

\* positions[i] = sum of the heights of the items j < i
RECURSIVE positionsOf(_, _)
positionsOf(hs, i) ==
    IF i <= 0 THEN 0 ELSE positionsOf(hs, i - 1) + getHeightOf(hs, i - 1)

itemPositions(i) == positionsOf(heights, i)

totalHeight == IF itemCount = 0 THEN 0 ELSE itemPositions(itemCount)

\* slip: the page is counted in items of the default height
visibleCountDefaultHeight == Max(1, viewportHeight \div defaultItemHeight)

\* avg = totalHeight / itemCount;  Math.max(1, Math.floor(viewportHeight / avg))
visibleCount ==
    IF itemCount = 0 THEN Max(1, viewportHeight \div defaultItemHeight)
    ELSE IF totalHeight = 0 THEN Infinity
    ELSE Max(1, (viewportHeight * itemCount) \div totalHeight)

halfPage == Max(1, visibleCount \div 2)

\* listItems[selectedIndex] exists
InRange == 0 <= selectedIndex /\ selectedIndex < itemCount

\* StackEntry.savedState is undefined until a sidechain is opened
NoState == [selectedMessage |-> -1, scrollY |-> -1]

\* setSelectedIndex(next): React re-renders and re-runs the effects only when
\* the state value changes
select(next, name) ==
    /\ selectedIndex' = next
    /\ lastEvent' = name
    /\ effects' = IF next # selectedIndex THEN "pending" ELSE effects
    /\ UNCHANGED <<itemCount, viewportHeight, heights, scrollY, savedState>>

\* the index each navigation key hands to setSelectedIndex
upIndex(prev) == Max(0, prev - 1)
downIndex(prev) == Min(itemCount - 1, prev + 1)
pageUpIndex(prev) == Max(0, prev - visibleCount)
pageDownIndex(prev) == Min(itemCount - 1, prev + visibleCount)
halfUpIndex(prev) == Max(0, prev - halfPage)
halfDownIndex(prev) == Min(itemCount - 1, prev + halfPage)

KeyUp == select(upIndex(selectedIndex), "k")
KeyDown == select(downIndex(selectedIndex), "j")
PageUp == select(pageUpIndex(selectedIndex), "pageup")
PageDown == select(pageDownIndex(selectedIndex), "pagedown")
HalfPageUp == select(halfUpIndex(selectedIndex), "ctrl-u")
HalfPageDown == select(halfDownIndex(selectedIndex), "ctrl-d")

MoveKeys == {"k", "j", "pageup", "pagedown", "ctrl-u", "ctrl-d"}

\* setHeights(prev => { if (prev.get(index) === h) return prev; ... next.set(index, h) })
setHeight(prev, index, h) ==
    IF index \in DOMAIN prev /\ prev[index] = h THEN prev ELSE MapSet(prev, index, h)

\* ref callback of item `index`
ResolveHeight ==
    \E index \in 0..(itemCount - 1), h \in 0..MaxHeight :
        /\ heights' = setHeight(heights, index, h)
        /\ effects' = IF heights' # heights THEN "pending" ELSE effects
        /\ lastEvent' = "resolveHeight"
        /\ UNCHANGED <<itemCount, viewportHeight, selectedIndex, scrollY, savedState>>

\* the caller renders with another itemCount (messages loaded, a group
\* expanded or folded, another conversation shown)
SetItemCount ==
    \E n \in 0..MaxDetailItems :
        /\ n # itemCount
        /\ itemCount' = n
        /\ effects' = "pending"
        /\ lastEvent' = "setItemCount"
        /\ UNCHANGED <<viewportHeight, heights, selectedIndex, scrollY, savedState>>

\* handleKey 's': onOpenSidechain(agentId, {scrollY, selectedMessage: selectedIndex}),
\* App stores it as savedState on the stack entry of this conversation
SaveState ==
    /\ InRange
    /\ savedState' = [selectedMessage |-> selectedIndex, scrollY |-> scrollY]
    /\ lastEvent' = "s"
    /\ UNCHANGED <<itemCount, viewportHeight, heights, selectedIndex, scrollY, effects>>

\* ConversationDetail's reset/restore effect, run when the conversation shown
\* changes: with a savedState prop (back in the parent) setScrollY(savedState.scrollY)
\* and setSelectedIndex(savedState.selectedMessage), without one (0, 0)
Restore ==
    \E st \in {NoState, savedState} :
        LET s == IF st # NoState THEN st.selectedMessage ELSE 0
            y == IF st # NoState THEN st.scrollY ELSE 0
        IN /\ selectedIndex' = s
           /\ scrollY' = y
           /\ effects' = IF s # selectedIndex \/ y # scrollY THEN "pending" ELSE effects
           /\ lastEvent' = "restore"
           /\ UNCHANGED <<itemCount, viewportHeight, heights, savedState>>

\* clamp effect: if (itemCount > 0 && selectedIndex >= itemCount) setSelectedIndex(itemCount - 1)
clampSelection(sel) ==
    IF itemCount > 0 /\ sel >= itemCount THEN itemCount - 1 ELSE sel

\* auto-scroll effect over the heights map hs of the render;
\* itemPositions[selectedIndex] is undefined outside 0..itemCount-1, both
\* comparisons are then false
autoScrollOf(hs, sel, y) ==
    IF itemCount = 0 THEN y
    ELSE IF sel < 0 \/ sel >= itemCount THEN y
    ELSE LET itemY == positionsOf(hs, sel)
             itemBottom == itemY + getHeightOf(hs, sel)
         IN IF itemY < y THEN itemY
            ELSE IF itemBottom > y + viewportHeight THEN itemBottom - viewportHeight
            ELSE y

\* slip: the scroll-down branch is missing
autoScrollUpOnly(sel, y) ==
    IF itemCount = 0 THEN y
    ELSE IF sel < 0 \/ sel >= itemCount THEN y
    ELSE IF itemPositions(sel) < y THEN itemPositions(sel) ELSE y

autoScroll(sel, y) == autoScrollOf(heights, sel, y)

\* the effects re-run after every render they caused, until a pass sets
\* nothing; at most n passes are followed
RECURSIVE runEffects(_, _, _, _)
runEffects(hs, sel, y, n) ==
    LET sel1 == clampSelection(sel)
        y1 == autoScrollOf(hs, sel, y)
    IN IF n = 0 \/ (sel1 = sel /\ y1 = y) THEN [selectedIndex |-> sel, scrollY |-> y]
       ELSE runEffects(hs, sel1, y1, n - 1)

\* one pass of the two effects over the values of the last render
EffectPass ==
    /\ effects \in {"pending", "ran"}
    /\ selectedIndex' = clampSelection(selectedIndex)
    /\ scrollY' = autoScroll(selectedIndex, scrollY)
    /\ effects' = IF selectedIndex' # selectedIndex \/ scrollY' # scrollY
                  THEN "ran" ELSE "idle"
    /\ lastEvent' = "effects"
    /\ UNCHANGED <<itemCount, viewportHeight, heights, savedState>>

ViewIdle ==
    /\ itemCount = 0 /\ viewportHeight = 1 /\ heights = <<>>
    /\ selectedIndex = 0 /\ scrollY = 0 /\ savedState = NoState
    /\ effects = "idle" /\ lastEvent = "none"

\* the hook as mounted by ConversationDetail: no items until the load completes
ViewInit ==
    /\ itemCount = 0 /\ viewportHeight \in 1..MaxViewport /\ heights = <<>>
    /\ selectedIndex = 0 /\ scrollY = 0 /\ savedState = NoState
    /\ effects = "pending" /\ lastEvent = "mount"

\* the hook as mounted by ConversationList: the conversations are loaded
ListInit ==
    /\ itemCount \in 1..MaxItems /\ viewportHeight \in 1..MaxViewport /\ heights = <<>>
    /\ selectedIndex = 0 /\ scrollY = 0 /\ savedState = NoState
    /\ effects = "pending" /\ lastEvent = "mount"

\* ================================================================= SUMMARY
\* null / undefined of a string-valued field
Null == "null"

\* message.content of a user event: only system tags, the text Warmup, other
\* plain text
RawTexts == {"<tag>", "Warmup", "hello"}

\* one line of a JSONL file; JSON.parse throws on a "malformed" one
FileLine ==
    [kind : {"malformed"}, isSidechain : {FALSE}, text : {Null}]
      \cup [kind : {"summary"}, isSidechain : {FALSE}, text : {"T"}]
      \cup [kind : {"user"}, isSidechain : BOOLEAN, text : RawTexts]
      \cup [kind : {"assistant"}, isSidechain : BOOLEAN, text : {Null}]

Files(max) == UNION {[1..n -> FileLine] : n \in 0..max}

\* strips the Caveat prefix and the system tags, trims; null if nothing is left
extractUserMessage(text) ==
    IF text = "<tag>" THEN Null ELSE text

toLowerCase(text) == IF text = "Warmup" THEN "warmup" ELSE text

\* the locals of parseConversationFile before the loop
summaryStart ==
    [isSidechain |-> FALSE, summary |-> Null, firstUserMessage |-> Null,
     lastUserMessage |-> Null, messageCount |-> 0]

\* slip: the flag follows the last event instead of latching
summariseLineFlagOverwrite(acc, line) ==
    IF line.kind = "malformed" THEN acc
    ELSE LET flagged == [acc EXCEPT !.isSidechain = line.isSidechain]
             titled == IF line.kind = "summary" /\ line.text # Null
                       THEN [flagged EXCEPT !.summary = line.text] ELSE flagged
             counted == [titled EXCEPT !.messageCount = @ + 1]
             cleanText == extractUserMessage(line.text)
         IN IF line.kind \notin {"user", "assistant"} THEN titled
            ELSE IF line.kind = "user" /\ line.text # Null /\ cleanText # Null
                 THEN [counted EXCEPT
                         !.firstUserMessage = IF @ = Null THEN cleanText ELSE @,
                         !.lastUserMessage = cleanText]
                 ELSE counted

\* body of the loop over the lines: the catch skips a line JSON.parse rejects
summariseLine(acc, line) ==
    IF line.kind = "malformed" THEN acc
    ELSE LET flagged == [acc EXCEPT !.isSidechain = @ \/ line.isSidechain]
             titled == IF line.kind = "summary" /\ line.text # Null
                       THEN [flagged EXCEPT !.summary = line.text] ELSE flagged
             counted == [titled EXCEPT !.messageCount = @ + 1]
             cleanText == extractUserMessage(line.text)
         IN IF line.kind \notin {"user", "assistant"} THEN titled
            ELSE IF line.kind = "user" /\ line.text # Null /\ cleanText # Null
                 THEN [counted EXCEPT
                         !.firstUserMessage = IF @ = Null THEN cleanText ELSE @,
                         !.lastUserMessage = cleanText]
                 ELSE counted

RECURSIVE summariseLines(_, _)
summariseLines(acc, lines) ==
    IF lines = <<>> THEN acc
    ELSE summariseLines(summariseLine(acc, Head(lines)), Tail(lines))

\* `return null` of parseConversationFile and of loadSidechainConversation
NoConversation ==
    [summary |-> Null, firstUserMessage |-> Null, lastUserMessage |-> Null,
     messageCount |-> -1]

\* slip: the first user message takes precedence over the summary event
parseConversationFileUserFirst(lines) ==
    LET acc == summariseLines(summaryStart, lines)
    IN IF acc.isSidechain THEN NoConversation
       ELSE [summary |-> IF acc.firstUserMessage # Null
                         THEN acc.firstUserMessage ELSE acc.summary,
             firstUserMessage |-> acc.firstUserMessage,
             lastUserMessage |-> acc.lastUserMessage,
             messageCount |-> acc.messageCount]

\* the ConversationSummary of a file: summary || firstUserMessage
parseConversationFile(lines) ==
    LET acc == summariseLines(summaryStart, lines)
    IN IF acc.isSidechain THEN NoConversation
       ELSE [summary |-> IF acc.summary # Null
                         THEN acc.summary ELSE acc.firstUserMessage,
             firstUserMessage |-> acc.firstUserMessage,
             lastUserMessage |-> acc.lastUserMessage,
             messageCount |-> acc.messageCount]

\* slip: the comparison is case-sensitive
isWarmupOnlyCaseSensitive(conv) ==
    /\ conv.firstUserMessage = "warmup"
    /\ conv.messageCount <= 2

\* conversation.firstUserMessage?.toLowerCase() === 'warmup' && messageCount <= 2
isWarmupOnly(conv) ==
    /\ conv.firstUserMessage # Null
    /\ toLowerCase(conv.firstUserMessage) = "warmup"
    /\ conv.messageCount <= 2

\* the condition under which loadConversations pushes a parsed file
isPushed(conv) ==
    /\ conv # NoConversation
    /\ conv.messageCount > 0
    /\ ~isWarmupOnly(conv)

\* loop of loadSidechainConversation: counts the messages and takes the raw
\* text of the first user message with content
RECURSIVE sidechainLines(_, _)
sidechainLines(acc, lines) ==
    IF lines = <<>> THEN acc
    ELSE LET line == Head(lines)
             counted == [acc EXCEPT !.messageCount = @ + 1]
             next == IF line.kind \notin {"user", "assistant"} THEN acc
                     ELSE IF line.kind = "user" /\ line.text # Null
                             /\ acc.firstUserMessage = Null
                          THEN [counted EXCEPT !.firstUserMessage = line.text]
                          ELSE counted
         IN sidechainLines(next, Tail(lines))

\* readFile or JSON.parse(lines[0]) throwing lands in the outer catch
loadSidechainConversation(readable, lines) ==
    IF ~readable THEN NoConversation
    ELSE IF lines = <<>> \/ lines[1].kind = "malformed" THEN NoConversation
    ELSE LET acc == sidechainLines(summaryStart, lines)
         IN [summary |-> acc.firstUserMessage,
             firstUserMessage |-> acc.firstUserMessage,
             lastUserMessage |-> Null,
             messageCount |-> acc.messageCount]

SummaryIdle ==
    /\ file = <<>> /\ conversation = NoConversation
    /\ sidechain = NoConversation /\ summarised = FALSE

SummaryInit ==
    /\ file \in Files(MaxFileLines) /\ conversation = NoConversation
    /\ sidechain = NoConversation /\ summarised = FALSE

Summarise ==
    /\ ~summarised
    /\ conversation' = parseConversationFile(file)
    /\ sidechain' = loadSidechainConversation(TRUE, file)
    /\ summarised' = TRUE
    /\ UNCHANGED file

\* =================================================================== INDEX
\* what parseConversationFile makes of a conversation file: null for a
\* sidechain file, else a summary; lastTimestamp 0 is null, which
\* new Date(null) turns into the epoch
IndexedConversations(id) ==
    {NoConversation}
      \cup [id : {id}, firstUserMessage : {Null}, messageCount : {0},
            lastTimestamp : 0..MaxTimestamp]
      \cup [id : {id}, firstUserMessage : {"Warmup", "hello"},
            messageCount : {2, 3}, lastTimestamp : 0..MaxTimestamp]

\* a conversation file of a project directory; readFile throws on an
\* unreadable one
IndexFiles(id) ==
    [readable : {FALSE}, conv : {NoConversation}]
      \cup [readable : {TRUE}, conv : IndexedConversations(id)]

\* slip: a failed read discards what was collected
visitFileDiscarding(convs, f) ==
    IF ~f.readable THEN <<>>
    ELSE IF isPushed(f.conv) THEN Append(convs, f.conv) ELSE convs

\* body of the loop over the files: the catch skips a file that throws
visitFile(convs, f) ==
    IF ~f.readable THEN convs
    ELSE IF isPushed(f.conv) THEN Append(convs, f.conv) ELSE convs

\* slip: oldest first
compareOldestFirst(a, b) == a.lastTimestamp - b.lastTimestamp

\* (a, b) => new Date(b.lastTimestamp) - new Date(a.lastTimestamp)
compareConversations(a, b) == b.lastTimestamp - a.lastTimestamp

\* Array.prototype.sort is stable: c goes behind every element that does not
\* compare greater than it
RECURSIVE insertSorted(_, _)
insertSorted(sorted, c) ==
    IF sorted = <<>> THEN <<c>>
    ELSE IF compareConversations(Head(sorted), c) <= 0
         THEN <<Head(sorted)>> \o insertSorted(Tail(sorted), c)
         ELSE <<c>> \o sorted

RECURSIVE sortConversations(_, _)
sortConversations(sorted, rest) ==
    IF rest = <<>> THEN sorted
    ELSE sortConversations(insertSorted(sorted, Head(rest)), Tail(rest))

IndexIdle ==
    /\ conversations = <<>> /\ scanned = <<>>
    /\ skippedDirs = 0 /\ indexPhase = "idle"

IndexInit ==
    /\ conversations = <<>> /\ scanned = <<>>
    /\ skippedDirs = 0 /\ indexPhase = "start"

\* readdir(PROJECTS_DIR) resolves
ListRoot ==
    /\ indexPhase = "start"
    /\ indexPhase' = "scan"
    /\ UNCHANGED <<conversations, scanned, skippedDirs>>

\* readdir(PROJECTS_DIR) throws: the outer catch, then sort and return
ListRootFails ==
    /\ indexPhase = "start"
    /\ conversations' = sortConversations(<<>>, conversations)
    /\ indexPhase' = "failed"
    /\ UNCHANGED <<scanned, skippedDirs>>

\* readdir(projectDir) throws: the folder's catch, on to the next folder
SkipProjectDir ==
    /\ indexPhase = "scan"
    /\ skippedDirs < MaxSkippedDirs
    /\ skippedDirs' = skippedDirs + 1
    /\ UNCHANGED <<conversations, scanned, indexPhase>>

\* the next conversation file of a listed project directory
VisitFile ==
    /\ indexPhase = "scan"
    /\ Len(scanned) < MaxIndexFiles
    /\ \E f \in IndexFiles(Len(scanned) + 1) :
          /\ conversations' = visitFile(conversations, f)
          /\ scanned' = Append(scanned, f)
    /\ UNCHANGED <<skippedDirs, indexPhase>>

\* after the last folder: sort and return
ReturnConversations ==
    /\ indexPhase = "scan"
    /\ conversations' = sortConversations(<<>>, conversations)
    /\ indexPhase' = "done"
    /\ UNCHANGED <<scanned, skippedDirs>>

\* ============================================================== NAVIGATION
\* the sidechain files descending may meet
SidechainFiles ==
    {<<>>,
     <<[kind |-> "user", isSidechain |-> TRUE, text |-> "hello"]>>,
     <<[kind |-> "malformed", isSidechain |-> FALSE, text |-> Null],
       [kind |-> "user", isSidechain |-> TRUE, text |-> "hello"]>>}

\* no handleOpenSidechain is awaiting
NoOpening == [pending |-> FALSE, state |-> NoState]

NoTrip == [at |-> "none", s |-> -1, y |-> -1]

\* React flushes the effects of a render before the next key press or file
\* completion is handled
Settled == effects = "idle"

Top == conversationStack[Len(conversationStack)]

\* listItems.length once the groups of conversation c are in state; the
\* conversation opened from the list is 1, the sidechains are 2 and up
itemsOf(c) == IF c = 1 THEN itemCounts.conversation ELSE itemCounts.sidechain

\* slip: the null check is missing
openSidechainUnchecked(prev, sc, currentState) ==
    IF prev = <<>> THEN <<[conversation |-> 1, savedState |-> NoState]>>
    ELSE Append([prev EXCEPT ![Len(prev)].savedState = currentState],
                [conversation |-> Len(prev) + 1, savedState |-> NoState])

\* if (sidechain) setConversationStack(prev => ...): the state is saved on the
\* last entry and the sidechain appended; on an empty prev the assignment to
\* updated[-1] adds no element
openSidechain(prev, sc, currentState) ==
    IF sc = NoConversation THEN prev
    ELSE IF prev = <<>> THEN <<[conversation |-> 1, savedState |-> NoState]>>
    ELSE Append([prev EXCEPT ![Len(prev)].savedState = currentState],
                [conversation |-> Len(prev) + 1, savedState |-> NoState])

\* slip: without a saved state the selection starts at the second item
restoredIndexSecondItem(st) == IF st # NoState THEN st.selectedMessage ELSE 1

\* the restore effect and initialSelected: savedState or (0, 0)
restoredIndex(st) == IF st # NoState THEN st.selectedMessage ELSE 0
restoredScrollY(st) == IF st # NoState THEN st.scrollY ELSE 0

\* ConversationDetail rendered with another conversation prop: the restore
\* effect sets the viewport and the load effect starts a load; loading and
\* the groups stay as they are
showTop(stack) ==
    LET top == stack[Len(stack)]
    IN /\ selectedIndex' = restoredIndex(top.savedState)
       /\ scrollY' = restoredScrollY(top.savedState)
       /\ effects' = IF selectedIndex' # selectedIndex \/ scrollY' # scrollY
                     THEN "pending" ELSE effects
       /\ loads' = loads \cup {top.conversation}

\* handleSelect from the list: ConversationDetail mounts with loading = true,
\* no groups, the viewport at (0, 0), and its load effect starts the load
OpenConversation ==
    /\ view = "list"
    /\ conversationStack' = <<[conversation |-> 1, savedState |-> NoState]>>
    /\ view' = "detail"
    /\ loading' = TRUE /\ error' = FALSE /\ groupsOf' = 0 /\ itemCount' = 0
    /\ selectedIndex' = restoredIndex(conversationStack'[1].savedState)
    /\ scrollY' = restoredScrollY(conversationStack'[1].savedState)
    /\ effects' = "pending"
    /\ loads' = {1}
    /\ trip' = NoTrip
    /\ lastEvent' = "open"
    /\ UNCHANGED <<viewportHeight, heights, savedState, opening, itemCounts>>

\* slip: slice(1) drops the bottom entry
popStackBottom(prev) == SubSeq(prev, 2, Len(prev))

\* prev.slice(0, -1)
popStack(prev) == SubSeq(prev, 1, Len(prev) - 1)

\* q / escape: handleBack pops the stack, or returns to the list and
\* unmounts ConversationDetail
Back ==
    /\ view = "detail"
    /\ Settled
    /\ IF Len(conversationStack) > 1
       THEN /\ conversationStack' = popStack(conversationStack)
            /\ showTop(conversationStack')
            /\ trip' = IF trip.at = "pushed" THEN [trip EXCEPT !.at = "popped"]
                       ELSE NoTrip
            /\ UNCHANGED <<view, loading, error, groupsOf, itemCount>>
       ELSE /\ conversationStack' = <<>>
            /\ view' = "list"
            /\ loading' = TRUE /\ error' = FALSE /\ groupsOf' = 0 /\ itemCount' = 0
            /\ selectedIndex' = 0 /\ scrollY' = 0 /\ effects' = "idle"
            /\ loads' = {}
            /\ trip' = NoTrip
    /\ lastEvent' = "back"
    /\ UNCHANGED <<viewportHeight, heights, savedState, opening, itemCounts>>

\* key 's' on an item with an agentId: handleOpenSidechain starts to await
\* loadSidechainConversation with the viewport of the key press
RequestSidechain ==
    /\ view = "detail"
    /\ Settled
    /\ InRange
    /\ Len(conversationStack) < MaxDepth
    /\ ~opening.pending
    /\ opening' = [pending |-> TRUE,
                   state |-> [selectedMessage |-> selectedIndex, scrollY |-> scrollY]]
    /\ lastEvent' = "s"
    /\ UNCHANGED <<itemCount, viewportHeight, heights, selectedIndex, scrollY,
                   savedState, effects, view, conversationStack, loading, error,
                   groupsOf, loads, itemCounts, trip>>

\* loadSidechainConversation resolves: null leaves everything as it is, a
\* conversation is pushed and ConversationDetail is rendered with it
SidechainLoaded ==
    /\ opening.pending
    /\ Settled
    /\ \E readable \in BOOLEAN, lines \in SidechainFiles :
          LET sc == loadSidechainConversation(readable, lines)
              next == openSidechain(conversationStack, sc, opening.state)
          IN /\ conversationStack' = next
             /\ lastEvent' = IF readable THEN "sidechainRead" ELSE "sidechainUnreadable"
             /\ IF next # conversationStack /\ view = "detail"
                THEN /\ showTop(next)
                     /\ trip' = [at |-> "pushed", s |-> selectedIndex, y |-> scrollY]
                ELSE UNCHANGED <<selectedIndex, scrollY, effects, loads, trip>>
    /\ opening' = NoOpening
    /\ UNCHANGED <<itemCount, viewportHeight, heights, savedState, view, loading,
                   error, groupsOf, itemCounts>>

\* a loadConversationMessages resolves: the load effect sets the groups,
\* clears the error and sets loading to false
LoadCompletes ==
    /\ view = "detail"
    /\ Settled
    /\ \E c \in loads :
          /\ loads' = loads \ {c}
          /\ groupsOf' = c
          /\ itemCount' = itemsOf(c)
          /\ trip' = IF trip.at = "popped" /\ c = Top.conversation
                     THEN [trip EXCEPT !.at = "reloaded"] ELSE trip
    /\ loading' = FALSE /\ error' = FALSE
    /\ effects' = "pending"
    /\ lastEvent' = "loaded"
    /\ UNCHANGED <<viewportHeight, heights, selectedIndex, scrollY, savedState,
                   view, conversationStack, opening, itemCounts>>

\* a loadConversationMessages rejects: setError, then setLoading(false)
LoadFails ==
    /\ view = "detail"
    /\ Settled
    /\ \E c \in loads : loads' = loads \ {c}
    /\ loading' = FALSE /\ error' = TRUE
    /\ lastEvent' = "loadFailed"
    /\ UNCHANGED <<itemCount, viewportHeight, heights, selectedIndex, scrollY,
                   savedState, effects, view, conversationStack, groupsOf, opening,
                   itemCounts, trip>>

\* slip: every key press writes the live viewport into the entries below
\* the top
DetailKeySavingBelow ==
    /\ view = "detail"
    /\ Settled
    /\ trip' = IF trip.at \in {"popped", "reloaded"} THEN NoTrip ELSE trip
    /\ conversationStack' =
          [k \in 1..Len(conversationStack) |->
              IF k < Len(conversationStack)
              THEN [conversationStack[k] EXCEPT
                      !.savedState = [selectedMessage |-> selectedIndex,
                                      scrollY |-> scrollY]]
              ELSE conversationStack[k]]
    /\ UNCHANGED <<view, loading, error, groupsOf, loads, opening, itemCounts>>

\* a selection key reaches the hook of the mounted ConversationDetail
DetailKey ==
    /\ view = "detail"
    /\ Settled
    /\ trip' = IF trip.at \in {"popped", "reloaded"} THEN NoTrip ELSE trip
    /\ UNCHANGED <<view, conversationStack, loading, error, groupsOf, loads,
                   opening, itemCounts>>

NavIdle ==
    /\ view = "list" /\ conversationStack = <<>> /\ loading = TRUE
    /\ error = FALSE /\ groupsOf = 0 /\ loads = {} /\ opening = NoOpening
    /\ itemCounts = [conversation |-> 0, sidechain |-> 0] /\ trip = NoTrip

\* App after loadConversations: the list is shown, nothing is open
NavInit ==
    /\ view = "list" /\ conversationStack = <<>> /\ loading = TRUE
    /\ error = FALSE /\ groupsOf = 0 /\ loads = {} /\ opening = NoOpening
    /\ itemCounts \in [conversation : 0..MaxDetailItems, sidechain : 0..MaxDetailItems]
    /\ trip = NoTrip

\* the hook state of a ConversationDetail that is not mounted yet
NavViewInit ==
    /\ itemCount = 0 /\ viewportHeight \in 1..MaxViewport /\ heights = <<>>
    /\ selectedIndex = 0 /\ scrollY = 0 /\ savedState = NoState
    /\ effects = "idle" /\ lastEvent = "none"

\* ================================================================ COLLAPSE
LoadedBlocks == {"text", "blank_text", "thinking", "tool_use"}

\* a loaded message: "blank_text" is a text block whose text trims to ''
LoadedMessage ==
    [type : {"user", "assistant"}, content : {StringContent}]
      \cup [type : {"assistant"},
            content : [isArray : {TRUE}, blocks : SUBSET LoadedBlocks]]

LoadedSeqs(max) == UNION {[1..n -> LoadedMessage] : n \in 0..max}

\* user and string-content messages never start collapsed; an array needs a
\* thinking or tool_use block and no text block with text
shouldStartCollapsed(message) ==
    IF message.type = "user" THEN FALSE
    ELSE IF ~message.content.isArray THEN FALSE
    ELSE LET hasText == "text" \in message.content.blocks
             hasCollapsible == {"thinking", "tool_use"} \cap message.content.blocks # {}
         IN hasCollapsible /\ ~hasText

\* msgs.forEach((msg, idx) => { if (shouldStartCollapsed(msg)) initialCollapsed.add(idx) })
initialCollapsed(ms) == {idx \in 0..(Len(ms) - 1) : shouldStartCollapsed(ms[idx + 1])}

CollapseIdle ==
    /\ loadedMsgs = <<>> /\ collapsedMessages = {} /\ collapsed = {}
    /\ detailLoaded = FALSE /\ itemRefs = <<>>

CollapseInit ==
    /\ loadedMsgs \in LoadedSeqs(MaxLoaded) /\ collapsedMessages = {} /\ collapsed = {}
    /\ detailLoaded = FALSE /\ itemRefs = <<>>

\* the load effect once loadConversationMessages has resolved:
\* setCollapsedMessages(initialCollapsed) in the list-item ConversationDetail,
\* setCollapsed(new Set()) in the inline-viewport ConversationDetail
LoadDetail ==
    /\ ~detailLoaded
    /\ collapsedMessages' = initialCollapsed(loadedMsgs)
    /\ collapsed' = {}
    /\ detailLoaded' = TRUE
    /\ UNCHANGED <<loadedMsgs, itemRefs>>

\* ================================================================= MEASURE
\* itemRefs.current.get(index)?.height ?? 1: the height of the mounted node,
\* read when it is needed
getItemHeightOf(refs, index) ==
    IF index \in DOMAIN refs THEN refs[index].height ELSE 1

getItemHeight(index) == getItemHeightOf(itemRefs, index)

\* the element of item `index` as React has just mounted it: its key carries
\* the collapsed flag, and node.height is whatever the layout engine has
\* computed by the time the ref callback runs (0 before the first layout)
mountedNode(isCollapsed, h) == [collapsed |-> isCollapsed, height |-> h]

\* the commit of a render attaches the ref of an item that has no node yet:
\* the callback stores the node, and the hook's callback records node.height
MountItem ==
    \E index \in (0..(itemCount - 1)) \ DOMAIN itemRefs, h \in 0..MaxHeight :
        /\ itemRefs' = MapSet(itemRefs, index, mountedNode(index \in collapsed, h))
        /\ heights' = setHeight(heights, index, h)
        /\ effects' = IF heights' # heights THEN "pending" ELSE effects
        /\ lastEvent' = "mountItem"
        /\ UNCHANGED <<itemCount, viewportHeight, selectedIndex, scrollY, savedState,
                       loadedMsgs, collapsedMessages, collapsed, detailLoaded>>

\* the layout engine gives a mounted node another height; no ref callback
\* runs, since the element keeps its key and its callback
LayoutItem ==
    \E index \in DOMAIN itemRefs, h \in 0..MaxHeight :
        /\ h # itemRefs[index].height
        /\ itemRefs' = [itemRefs EXCEPT ![index].height = h]
        /\ lastEvent' = "layout"
        /\ UNCHANGED <<itemCount, viewportHeight, heights, selectedIndex, scrollY,
                       savedState, effects, loadedMsgs, collapsedMessages,
                       collapsed, detailLoaded>>

\* the commit of the first render is done: every item has its node
Committed == DOMAIN itemRefs = 0..(itemCount - 1)

\* space: toggleCollapsed(selectedIndex) flips the flag and drops the cached
\* ref callback; the key of the element changes with the flag, so the commit
\* detaches the old node (itemRefs.delete) and attaches a new one
ToggleCollapsed ==
    \E h \in 0..MaxHeight :
        LET index == selectedIndex
            next == IF index \in collapsed THEN collapsed \ {index}
                    ELSE collapsed \cup {index}
        IN /\ Committed
           /\ InRange
           /\ collapsed' = next
           /\ itemRefs' = MapSet(itemRefs, index, mountedNode(index \in next, h))
           /\ heights' = setHeight(heights, index, h)
           /\ effects' = IF heights' # heights THEN "pending" ELSE effects
           /\ lastEvent' = "space"
           /\ UNCHANGED <<itemCount, viewportHeight, selectedIndex, scrollY, savedState,
                          loadedMsgs, collapsedMessages, detailLoaded>>

\* the detail view with its groups loaded and rendered, before the commit
\* has attached a ref
MeasureInit ==
    /\ itemCount \in 1..MaxDetailItems /\ viewportHeight \in 1..MaxViewport
    /\ heights = <<>> /\ selectedIndex = 0 /\ scrollY = 0 /\ savedState = NoState
    /\ effects = "pending" /\ lastEvent = "mount"
    /\ loadedMsgs = <<>> /\ collapsedMessages = {} /\ collapsed = {}
    /\ detailLoaded = TRUE /\ itemRefs = <<>>

\* ================================================================ LIST APP
\* useState({ selectedIndex: 0, scrollY: 0 }), useState(null); no list rendered
ListAppIdle ==
    /\ listState = [selectedIndex |-> 0, scrollY |-> 0]
    /\ selectedConversation = -1 /\ boxHeights = <<>>

\* the state of the stack-based App, which this App does not have
stackVars == <<conversationStack, loading, error, groupsOf, loads, opening,
               itemCounts>>

\* the ref callback of every conversation's box has run
ListCommitted == DOMAIN heights = 0..(itemCount - 1)

\* node.height of the boxes when their ref callbacks run: the height the box
\* is given, or 0 where the layout engine has not computed it yet
measuredRows ==
    {hs \in [0..(itemCount - 1) -> 0..MaxHeight] :
        \A i \in 0..(itemCount - 1) : hs[i] \in {0, boxHeights[i]}}

\* the commit of the list's first render calls the ref callback of every box,
\* which queues setHeights; the effects of that render run on its own values
\* (nothing measured) before the queued heights are rendered
MeasureRows ==
    /\ view = "list" /\ heights = <<>> /\ lastEvent = "effects"
    /\ \E hs \in measuredRows : heights' = hs
    /\ effects' = "pending"
    /\ lastEvent' = "measure"
    /\ UNCHANGED <<itemCount, viewportHeight, selectedIndex, scrollY, savedState,
                   view, trip, stackVars, listAppVars>>

\* return on the list: onSelect(conversations[idx], { selectedIndex: idx,
\* scrollY: scrollYRef.current }), the ref being in sync once the effects
\* have run; handleSelect stores the state and shows the detail view
handleSelect ==
    /\ view = "list" /\ ListCommitted /\ effects = "idle" /\ InRange
    /\ listState' = [selectedIndex |-> selectedIndex, scrollY |-> scrollY]
    /\ selectedConversation' = selectedIndex
    /\ view' = "detail"
    /\ trip' = [at |-> "opened", s |-> selectedIndex, y |-> scrollY]
    /\ lastEvent' = "return"
    /\ UNCHANGED <<itemCount, viewportHeight, heights, selectedIndex, scrollY,
                   savedState, effects, boxHeights, stackVars>>

\* handleBack shows the list: a new ConversationList is mounted, its hook
\* starts from initialSelectedIndex and initialScrollY with no measured height
handleBack ==
    /\ view = "detail"
    /\ view' = "list"
    /\ selectedConversation' = -1
    /\ selectedIndex' = listState.selectedIndex
    /\ scrollY' = listState.scrollY
    /\ heights' = <<>>
    /\ effects' = "pending"
    /\ lastEvent' = "back"
    /\ trip' = [trip EXCEPT !.at = "back"]
    /\ UNCHANGED <<itemCount, viewportHeight, savedState, listState, boxHeights,
                   stackVars>>

\* a navigation key on the mounted list
ListKey ==
    /\ view = "list" /\ ListCommitted
    /\ trip' = NoTrip
    /\ UNCHANGED <<view, stackVars, listAppVars>>

\* App once loadConversations has resolved: the list is rendered for the
\* first time, each conversation a box of two or three rows
ListAppInit ==
    /\ listState = [selectedIndex |-> 0, scrollY |-> 0]
    /\ selectedConversation = -1
    /\ boxHeights \in [0..(itemCount - 1) -> 1..MaxHeight]

\* ========================================================== SPECIFICATIONS
Init == ListAppIdle /\ GroupIdle /\ ParserIdle /\ ViewInit /\ SummaryIdle /\ IndexIdle /\ NavIdle /\ CollapseIdle

Next ==
    \/ (KeyUp /\ UNCHANGED <<listAppVars, groupVars, parserVars, summaryVars, indexVars, navVars, collapseVars>>)
    \/ (KeyDown /\ UNCHANGED <<listAppVars, groupVars, parserVars, summaryVars, indexVars, navVars, collapseVars>>)
    \/ (PageUp /\ UNCHANGED <<listAppVars, groupVars, parserVars, summaryVars, indexVars, navVars, collapseVars>>)
    \/ (PageDown /\ UNCHANGED <<listAppVars, groupVars, parserVars, summaryVars, indexVars, navVars, collapseVars>>)
    \/ (HalfPageUp /\ UNCHANGED <<listAppVars, groupVars, parserVars, summaryVars, indexVars, navVars, collapseVars>>)
    \/ (HalfPageDown /\ UNCHANGED <<listAppVars, groupVars, parserVars, summaryVars, indexVars, navVars, collapseVars>>)
    \/ (ResolveHeight /\ UNCHANGED <<listAppVars, groupVars, parserVars, summaryVars, indexVars, navVars, collapseVars>>)
    \/ (SetItemCount /\ UNCHANGED <<listAppVars, groupVars, parserVars, summaryVars, indexVars, navVars, collapseVars>>)
    \/ (SaveState /\ UNCHANGED <<listAppVars, groupVars, parserVars, summaryVars, indexVars, navVars, collapseVars>>)
    \/ (Restore /\ UNCHANGED <<listAppVars, groupVars, parserVars, summaryVars, indexVars, navVars, collapseVars>>)
    \/ (EffectPass /\ UNCHANGED <<listAppVars, groupVars, parserVars, summaryVars, indexVars, navVars, collapseVars>>)

Spec == Init /\ [][Next]_vars

InitList == ListAppIdle /\ GroupIdle /\ ParserIdle /\ ListInit /\ SummaryIdle /\ IndexIdle /\ NavIdle /\ CollapseIdle

NextList ==
    \/ (KeyUp /\ UNCHANGED <<listAppVars, groupVars, parserVars, summaryVars, indexVars, navVars, collapseVars>>)
    \/ (KeyDown /\ UNCHANGED <<listAppVars, groupVars, parserVars, summaryVars, indexVars, navVars, collapseVars>>)
    \/ (PageUp /\ UNCHANGED <<listAppVars, groupVars, parserVars, summaryVars, indexVars, navVars, collapseVars>>)
    \/ (PageDown /\ UNCHANGED <<listAppVars, groupVars, parserVars, summaryVars, indexVars, navVars, collapseVars>>)
    \/ (HalfPageUp /\ UNCHANGED <<listAppVars, groupVars, parserVars, summaryVars, indexVars, navVars, collapseVars>>)
    \/ (HalfPageDown /\ UNCHANGED <<listAppVars, groupVars, parserVars, summaryVars, indexVars, navVars, collapseVars>>)
    \/ (ResolveHeight /\ UNCHANGED <<listAppVars, groupVars, parserVars, summaryVars, indexVars, navVars, collapseVars>>)
    \/ (EffectPass /\ UNCHANGED <<listAppVars, groupVars, parserVars, summaryVars, indexVars, navVars, collapseVars>>)

SpecList == InitList /\ [][NextList]_vars

InitGroup == ListAppIdle /\ GroupInit /\ ParserIdle /\ ViewIdle /\ SummaryIdle /\ IndexIdle /\ NavIdle /\ CollapseIdle

NextGroup == Group /\ UNCHANGED <<listAppVars, parserVars, viewVars, summaryVars, indexVars, navVars, collapseVars>>

SpecGroup == InitGroup /\ [][NextGroup]_vars

InitLoad == ListAppIdle /\ GroupIdle /\ ParserInit /\ ViewIdle /\ SummaryIdle /\ IndexIdle /\ NavIdle /\ CollapseIdle

NextLoad == ReadLine /\ UNCHANGED <<listAppVars, groupVars, viewVars, summaryVars, indexVars, navVars, collapseVars>>

SpecLoad == InitLoad /\ [][NextLoad]_vars

InitSummary ==
    ListAppIdle /\ GroupIdle /\ ParserIdle /\ ViewIdle /\ SummaryInit /\ IndexIdle /\ NavIdle /\ CollapseIdle

NextSummary ==
    Summarise /\ UNCHANGED <<listAppVars, groupVars, parserVars, viewVars, indexVars, navVars, collapseVars>>

SpecSummary == InitSummary /\ [][NextSummary]_vars

InitIndex ==
    ListAppIdle /\ GroupIdle /\ ParserIdle /\ ViewIdle /\ SummaryIdle /\ IndexInit /\ NavIdle /\ CollapseIdle

NextIndex ==
    \/ (ListRoot /\ UNCHANGED <<listAppVars, groupVars, parserVars, viewVars, summaryVars, navVars, collapseVars>>)
    \/ (ListRootFails /\ UNCHANGED <<listAppVars, groupVars, parserVars, viewVars, summaryVars, navVars, collapseVars>>)
    \/ (SkipProjectDir /\ UNCHANGED <<listAppVars, groupVars, parserVars, viewVars, summaryVars, navVars, collapseVars>>)
    \/ (VisitFile /\ UNCHANGED <<listAppVars, groupVars, parserVars, viewVars, summaryVars, navVars, collapseVars>>)
    \/ (ReturnConversations /\ UNCHANGED <<listAppVars, groupVars, parserVars, viewVars, summaryVars, navVars, collapseVars>>)

SpecIndex == InitIndex /\ [][NextIndex]_vars

libVars == <<listAppVars, groupVars, parserVars, summaryVars, indexVars, collapseVars>>

InitNav ==
    /\ ListAppIdle /\ GroupIdle /\ ParserIdle /\ SummaryIdle /\ IndexIdle /\ CollapseIdle
    /\ NavViewInit /\ NavInit

NextNav ==
    \/ (OpenConversation /\ UNCHANGED libVars)
    \/ (Back /\ UNCHANGED libVars)
    \/ (RequestSidechain /\ UNCHANGED libVars)
    \/ (SidechainLoaded /\ UNCHANGED libVars)
    \/ (LoadCompletes /\ UNCHANGED libVars)
    \/ (LoadFails /\ UNCHANGED libVars)
    \/ (KeyUp /\ DetailKey /\ UNCHANGED libVars)
    \/ (KeyDown /\ DetailKey /\ UNCHANGED libVars)
    \/ (EffectPass /\ view = "detail" /\ UNCHANGED <<navVars, libVars>>)

SpecNav == InitNav /\ [][NextNav]_vars

InitCollapse ==
    /\ ListAppIdle /\ GroupIdle /\ ParserIdle /\ ViewIdle /\ SummaryIdle /\ IndexIdle /\ NavIdle
    /\ CollapseInit

NextCollapse ==
    LoadDetail /\ UNCHANGED <<listAppVars, groupVars, parserVars, viewVars, summaryVars, indexVars, navVars>>

SpecCollapse == InitCollapse /\ [][NextCollapse]_vars

measureRest == <<listAppVars, groupVars, parserVars, summaryVars, indexVars, navVars>>

InitMeasure ==
    /\ ListAppIdle /\ GroupIdle /\ ParserIdle /\ SummaryIdle /\ IndexIdle /\ NavIdle
    /\ MeasureInit

\* the steps React takes by itself: committing a render and running effects
MeasureCommit ==
    \/ (MountItem /\ UNCHANGED measureRest)
    \/ (EffectPass /\ UNCHANGED <<measureRest, collapseVars>>)

NextMeasure ==
    \/ MeasureCommit
    \/ (LayoutItem /\ UNCHANGED measureRest)
    \/ (ToggleCollapsed /\ UNCHANGED measureRest)
    \/ (KeyUp /\ Committed /\ UNCHANGED <<measureRest, collapseVars>>)
    \/ (KeyDown /\ Committed /\ UNCHANGED <<measureRest, collapseVars>>)

SpecMeasure == InitMeasure /\ [][NextMeasure]_vars

\* React does not leave a commit or an effect undone; the layout engine and
\* the user owe nothing
SpecMeasureLive == SpecMeasure /\ WF_vars(MeasureCommit)

listAppRest == <<groupVars, parserVars, summaryVars, indexVars, collapseVars>>

InitListApp ==
    /\ GroupIdle /\ ParserIdle /\ SummaryIdle /\ IndexIdle /\ CollapseIdle
    /\ NavIdle /\ ListInit /\ ListAppInit

NextListApp ==
    \/ (handleSelect /\ UNCHANGED listAppRest)
    \/ (handleBack /\ UNCHANGED listAppRest)
    \/ (MeasureRows /\ UNCHANGED listAppRest)
    \/ (KeyUp /\ ListKey /\ UNCHANGED listAppRest)
    \/ (KeyDown /\ ListKey /\ UNCHANGED listAppRest)
    \/ (EffectPass /\ view = "list" /\ UNCHANGED <<navVars, listAppVars, listAppRest>>)

SpecListApp == InitListApp /\ [][NextListApp]_vars

\* ================================================================== CLAIMS
\* ---- vocabulary of the grouping claims, stated on the message contents
Identity(n) == [k \in 1..n |-> k]
Range(a, b) == [k \in 1..(b - a + 1) |-> a + k - 1]
InGroups(gs, g) == \E k \in 1..Len(gs) : gs[k] = g

ContainsToolUse(i) ==
    msgs[i].type = "assistant" /\ msgs[i].content.isArray
    /\ "tool_use" \in msgs[i].content.blocks
ThinkingOnly(i) ==
    msgs[i].type = "assistant" /\ msgs[i].content.isArray
    /\ msgs[i].content.blocks = {"thinking"}

\* a..b is a maximal run of consecutive assistant messages
IsRun(a, b) ==
    /\ a <= b
    /\ \A k \in a..b : msgs[k].type = "assistant"
    /\ (a = 1 \/ msgs[a - 1].type = "user")
    /\ (b = Len(msgs) \/ msgs[b + 1].type = "user")

\* e is the operating boundary of the run a..b
IsBoundary(a, b, e) ==
    \E t \in a..e :
        /\ ContainsToolUse(t)
        /\ \A k \in (t + 1)..b : ~ContainsToolUse(k)
        /\ \A k \in (t + 1)..e : ThinkingOnly(k)
        /\ (e = b \/ ~ThinkingOnly(e + 1))

\* C1: the groups returned by groupMessages, concatenated in group order,
\* are exactly the input sequence: every message is in exactly one group and
\* message order is preserved (both variants of groupMessages).
C1_GroupsPartitionInput ==
    grouped => /\ Flatten(groups) = Identity(Len(msgs))
               /\ Flatten(indexedGroups) = Identity(Len(msgs))

C1_Witness ==
    /\ grouped /\ Len(msgs) = 4
    /\ \E k \in 1..Len(groups) : Len(groups[k]) >= 2
    /\ \E k \in 1..Len(indexedGroups) : Len(indexedGroups[k]) >= 2
    /\ \E k \in 1..Len(msgs) : msgs[k].type = "user"

C7_NoToolRunAllSolo ==
    grouped =>
        \A a \in 1..Len(msgs), b \in 1..Len(msgs) :
            (IsRun(a, b) /\ \A t \in a..b : ~ContainsToolUse(t)) =>
                \A j \in a..b : /\ InGroups(groups, <<j>>)
                                /\ InGroups(indexedGroups, <<j>>)

\* ---- vocabulary of the parser claims
\* 0-based index of the last assistant message of the stream, -1 for none
RECURSIVE MostRecentAssistant(_, _)
MostRecentAssistant(ms, k) ==
    IF k = 0 THEN -1
    ELSE IF ms[k] = "assistant" THEN k - 1
    ELSE MostRecentAssistant(ms, k - 1)

LinkedToPrecedingAssistant ==
    LET a == MostRecentAssistant(messages, Len(messages)) IN
    a \in DOMAIN messageAgentIds /\ messageAgentIds[a] = entry.agentId

\* C9 as stated: every user event that carries an agentId after an emitted
\* assistant message is recorded against that assistant message's index.
C9_Original ==
    (/\ entry.kind = "user" /\ entry.agentId # NoAgent
     /\ MostRecentAssistant(messages, Len(messages)) >= 0)
        => LinkedToPrecedingAssistant

\* C9 (amended): a user event that has a message field and is not meta and
\* carries agentId X maps the stream index of the most recent assistant
\* message emitted before it to X, whether or not the user event itself is
\* emitted as a message.
C9_LinkOnPrecedingAssistant ==
    (/\ entry.kind = "user" /\ entry.hasMessage /\ ~entry.isMeta
     /\ entry.agentId # NoAgent
     /\ MostRecentAssistant(messages, Len(messages)) >= 0)
        => LinkedToPrecedingAssistant

\* a hidden (not emitted) user event with an agentId, read after two
\* assistant messages and a user message: the link sits on index 1
C9_Witness ==
    /\ entry.kind = "user" /\ entry.hasMessage /\ ~entry.isMeta
    /\ entry.agentId = "X" /\ entry.text = "hidden"
    /\ messages = <<"assistant", "assistant">>
    /\ 1 \in DOMAIN messageAgentIds /\ messageAgentIds[1] = "X"
    /\ 0 \notin DOMAIN messageAgentIds

HiddenUser(e) ==
    e.kind = "user" /\ e.hasMessage /\ ~e.isMeta /\ e.text = "hidden"

\* C10: an assistant event is excluded because of a hidden command only when
\* it is the event right after the hidden user event; an assistant event
\* that follows a later user event is not excluded.
C10_HiddenSkipsOnlyNext ==
    [][(/\ entry'.kind = "assistant" /\ entry'.hasMessage
        /\ lineCount' = lineCount + 1
        /\ messages' = messages)
            => HiddenUser(entry)]_vars

\* ---- vocabulary of the viewport claims
\* [position(selected), position(selected) + h(selected)) lies in
\* [scrollY, scrollY + viewportHeight)
Contained ==
    /\ scrollY <= itemPositions(selectedIndex)
    /\ itemPositions(selectedIndex) + getHeight(selectedIndex)
           <= scrollY + viewportHeight

\* C2 as stated: for every assignment of heights, once the auto-scroll step
\* that follows an event has run, the selected item is inside the viewport.
C2_Original ==
    (itemCount > 0 /\ effects # "pending") => Contained

\* C2 (amended): with itemCount > 0 and a selected item no taller than the
\* viewport, once the auto-scroll step that follows a moveSelection,
\* pageMove, halfPageMove or resolveHeight event has run, the selected
\* item's interval is contained in [scrollY, scrollY + viewportHeight).
C2_SelectedVisibleAfterAutoScroll ==
    (/\ itemCount > 0 /\ effects # "pending"
     /\ getHeight(selectedIndex) <= viewportHeight)
        => Contained

\* the last item selected and scrolled to, in a list longer than the viewport
C2_Witness ==
    /\ effects = "idle" /\ itemCount = 3 /\ selectedIndex = 2
    /\ totalHeight > viewportHeight /\ scrollY > 0
    /\ getHeight(selectedIndex) <= viewportHeight
    /\ Contained

\* C3: whenever itemCount > 0 and the effects have settled,
\* 0 <= selectedIndex < itemCount.
C3_SelectionInRange ==
    (itemCount > 0 /\ effects = "idle") => InRange

\* C4: with itemCount = 0 a move key changes neither selectedIndex nor scrollY.
C4_EmptyListMoveIsNoOp ==
    [][(itemCount = 0 /\ itemCount' = 0 /\ lastEvent' \in MoveKeys)
            => (selectedIndex' = selectedIndex /\ scrollY' = scrollY)]_vars

\* C5: 0 <= scrollY <= max(0, totalHeight - viewportHeight) once the effects
\* have settled.
C5_ScrollWithinContent ==
    effects = "idle" =>
        (0 <= scrollY /\ scrollY <= Max(0, totalHeight - viewportHeight))

\* ---------------------------------------------------------------- summariser
IsMessageKind(kind) == kind \in {"user", "assistant"}
IsWellFormed(line) == line.kind # "malformed"

\* the file with the lines that are not valid JSON removed
stripMalformed(lines) == SelectSeq(lines, IsWellFormed)

KindsOf(lines) == [k \in 1..Len(lines) |-> lines[k].kind]
MessageKinds(lines) == SelectSeq(KindsOf(lines), IsMessageKind)
CountKind(lines, kind) == Cardinality({k \in 1..Len(lines) : lines[k].kind = kind})
HasSidechainEvent == \E k \in 1..Len(file) : file[k].isSidechain

\* the user events whose cleaned text is not empty, in file order
HasCleanText(line) == line.kind = "user" /\ extractUserMessage(line.text) # Null
CleanUserLines(lines) == SelectSeq(lines, HasCleanText)
FirstUserIsWarmup(lines) ==
    /\ CleanUserLines(lines) # <<>>
    /\ CleanUserLines(lines)[1].text \in {"Warmup", "warmup"}

\* C11: a line that is not valid JSON never aborts its file: parseConversationFile
\* and loadSidechainConversation return what they return for the file with
\* the malformed lines removed, wherever those lines are
C11_MalformedLinesSkipped ==
    summarised =>
        /\ conversation = parseConversationFile(stripMalformed(file))
        /\ sidechain = loadSidechainConversation(TRUE, stripMalformed(file))

\* C14: a file with an isSidechain event at any position has no summary and
\* is not pushed by loadConversations
C14_SidechainFileExcluded ==
    (summarised /\ HasSidechainEvent) =>
        (conversation = NoConversation /\ ~isPushed(conversation))

C14_Witness ==
    /\ summarised /\ Len(file) = 3
    /\ file[1].isSidechain /\ ~file[2].isSidechain /\ ~file[3].isSidechain
    /\ file[3].kind = "user" /\ conversation = NoConversation

\* C15: a non-sidechain conversation with at least one message is left out of
\* the index exactly when its first user message is 'warmup' in any letter
\* case and it has at most 2 messages; <<user Warmup, assistant>> is left out
C15_WarmupOnlyExcluded ==
    (summarised /\ ~HasSidechainEvent /\ Len(MessageKinds(file)) >= 1) =>
        /\ ~isPushed(conversation) <=>
             (FirstUserIsWarmup(file) /\ Len(MessageKinds(file)) <= 2)
        /\ (MessageKinds(file) = <<"user", "assistant">> /\ Len(file) = 2
              /\ file[1].text = "Warmup") => ~isPushed(conversation)

C15_Witness ==
    /\ summarised /\ Len(file) = 2 /\ ~HasSidechainEvent
    /\ MessageKinds(file) = <<"user", "assistant">> /\ file[1].text = "Warmup"
    /\ ~isPushed(conversation)

\* the 5-line file of the end-to-end example
IsFiveLineExample ==
    /\ Len(file) = 5 /\ ~HasSidechainEvent
    /\ CountKind(file, "malformed") = 1 /\ CountKind(file, "summary") = 1
    /\ MessageKinds(file) = <<"user", "assistant", "user">>

\* C16 as stated: the 5-line file yields messageCount = 2 and summary = T
C16_Original ==
    (summarised /\ IsFiveLineExample) =>
        (conversation.messageCount = 2 /\ conversation.summary = "T")

\* C16: the 5-line file with one malformed line, one summary event T and the
\* events user, assistant, user, none of them a sidechain event, yields
\* messageCount = 3 and summary = T
C16_FiveLineExample ==
    (summarised /\ IsFiveLineExample) =>
        (conversation.messageCount = 3 /\ conversation.summary = "T")

C16_Witness ==
    /\ summarised /\ IsFiveLineExample /\ file[1].kind = "malformed"
    /\ conversation.summary = "T" /\ conversation.firstUserMessage = "hello"

\* --------------------------------------------------------------------- index
InOutput(conv) == \E k \in 1..Len(conversations) : conversations[k] = conv

\* a readable file of a non-sidechain conversation with a message that is
\* not a warm-up probe
Qualifies(f) ==
    /\ f.readable /\ f.conv # NoConversation /\ f.conv.messageCount > 0
    /\ ~(f.conv.firstUserMessage \in {"Warmup", "warmup"} /\ f.conv.messageCount <= 2)

C19_UnreadableSkipped ==
    /\ indexPhase = "done" =>
          \A k \in 1..Len(scanned) : Qualifies(scanned[k]) => InOutput(scanned[k].conv)
    /\ indexPhase = "failed" => conversations = <<>>

C19_Witness ==
    /\ indexPhase = "done" /\ skippedDirs = 1 /\ Len(scanned) = 3
    /\ Qualifies(scanned[1]) /\ ~scanned[2].readable /\ Qualifies(scanned[3])
    /\ Len(conversations) = 2

\* ---------------------------------------------------------------- navigation
\* the way back is complete: the sidechain was pushed at the viewport the
\* key 's' saw, it was popped, the parent's messages are loaded again and
\* shown, and the effects have settled
BackInParent ==
    /\ view = "detail" /\ trip.at = "reloaded"
    /\ Top.savedState = [selectedMessage |-> trip.s, scrollY |-> trip.y]
    /\ groupsOf = Top.conversation /\ loads = {} /\ ~error /\ effects = "idle"

\* C12: push/pop round trip: a sidechain pushed at the viewport (s, y) and
\* popped again leaves the parent, once its messages are reloaded, at (s, y),
\* whatever the item counts of the sidechain and of the parent
C12_PushPopRoundTrip ==
    BackInParent => (selectedIndex = trip.s /\ scrollY = trip.y)

\* C13: a sidechain file that cannot be read makes descending a no-op: stack,
\* view and viewport are unchanged and no error state is set
C13_UnreadableSidechainNoOp ==
    [][(opening.pending /\ lastEvent' = "sidechainUnreadable") =>
          /\ conversationStack' = conversationStack /\ view' = view
          /\ selectedIndex' = selectedIndex /\ scrollY' = scrollY
          /\ itemCount' = itemCount /\ groupsOf' = groupsOf
          /\ loading' = loading /\ error' = error /\ loads' = loads]_vars

C13_Witness ==
    /\ lastEvent = "sidechainUnreadable" /\ ~opening.pending
    /\ view = "detail" /\ Len(conversationStack) = 1
    /\ groupsOf = 1 /\ selectedIndex = 1 /\ ~loading /\ ~error

\* C18: while the load of the conversation on top of the stack is in flight
\* the detail view is in the loading state
C18_LoadingUntilLoaded ==
    (view = "detail" /\ Top.conversation \in loads) => loading

\* ------------------------------------------------------------------ collapse
\* an assistant message with thinking or tool_use blocks and no text block
\* with text
CollapsibleOnly(message) ==
    /\ message.type = "assistant" /\ message.content.isArray
    /\ message.content.blocks \cap {"thinking", "tool_use"} # {}
    /\ "text" \notin message.content.blocks

\* C20: right after the load every assistant message with thinking or
\* tool_use blocks and no non-empty text block is collapsed and every other
\* message is expanded, in the list-item view (collapsedMessages) and in the
\* inline-viewport view (collapsed)
C20_CollapsibleStartCollapsed ==
    detailLoaded =>
        \A idx \in 0..(Len(loadedMsgs) - 1) :
            /\ CollapsibleOnly(loadedMsgs[idx + 1]) <=> idx \in collapsedMessages
            /\ CollapsibleOnly(loadedMsgs[idx + 1]) <=> idx \in collapsed

\* ------------------------------------------------------------- auto-scroll
\* C21: the auto-scroll rule never alternates: applied twice to the values of
\* a render it does not come back to the scrollY it started from, unless the
\* first application already left scrollY alone
C21_AutoScrollSettles ==
    LET y1 == autoScroll(selectedIndex, scrollY)
        y2 == autoScroll(selectedIndex, y1)
    IN y2 = scrollY => y1 = scrollY

\* ------------------------------------------------------- navigation stack
\* C22: a sidechain load that completes after the user went back to the
\* list leaves the navigation stack as it is
C22_LateSidechainIgnored ==
    [][(opening.pending /\ view = "list" /\ lastEvent' = "sidechainRead") =>
          conversationStack' = conversationStack]_vars

\* C23: pop on a stack of depth n > 1 removes the top entry and leaves the
\* n - 1 entries below as they were; pop on depth 1 empties the stack and
\* shows the index list
C23_PopRemovesTop ==
    [][(view = "detail" /\ lastEvent' = "back") =>
          IF Len(conversationStack) > 1
          THEN /\ Len(conversationStack') = Len(conversationStack) - 1
               /\ \A k \in 1..(Len(conversationStack) - 1) :
                      conversationStack'[k] = conversationStack[k]
               /\ view' = "detail"
          ELSE conversationStack' = <<>> /\ view' = "list"]_vars

C23_Witness ==
    /\ lastEvent = "back" /\ view = "detail" /\ Len(conversationStack) = 1
    /\ Top.conversation = 1 /\ Top.savedState # NoState

\* C24: a conversation opened from the index list starts at selectedIndex 0
\* and scrollY 0 with a stack of that one entry
C24_OpenStartsAtTop ==
    lastEvent = "open" =>
        /\ view = "detail" /\ Len(conversationStack) = 1
        /\ selectedIndex = 0 /\ scrollY = 0

\* a conversation is opened after an earlier one was scrolled, descended
\* from and left, with the sidechain load of the earlier visit still awaited
C24_Witness ==
    /\ lastEvent = "open" /\ opening.pending
    /\ opening.state.selectedMessage = 1

C30_EmptyListAtOrigin ==
    (view = "detail" /\ itemCount = 0) => (scrollY = 0 /\ ~InRange)

\* ---------------------------------------------------------------- paging
\* floor(viewportHeight / (totalHeight / itemCount)): the largest n with
\* n * totalHeight <= viewportHeight * itemCount; with totalHeight = 0 the
\* quotient is unbounded and any step reaches the end of the list
PageItems ==
    IF totalHeight = 0 THEN itemCount
    ELSE LET fits == {n \in 0..(viewportHeight * itemCount) :
                          n * totalHeight <= viewportHeight * itemCount}
         IN Max(1, CHOOSE n \in fits : \A m \in fits : m <= n)

\* half of an unbounded page is unbounded
HalfPageItems == IF totalHeight = 0 THEN itemCount ELSE Max(1, PageItems \div 2)

ClampToList(i) == Max(0, Min(itemCount - 1, i))

\* C29: a page key moves the selection by max(1, floor(viewportHeight /
\* averageHeight)) items and a half-page key by max(1, floor(page / 2)),
\* with averageHeight = totalHeight / itemCount, clamped to 0..itemCount-1,
\* and the auto-scroll pass is due whenever the selection changed
C29_PageStep ==
    [][/\ lastEvent' = "pagedown" =>
             selectedIndex' = ClampToList(selectedIndex + PageItems)
       /\ lastEvent' = "pageup" =>
             selectedIndex' = ClampToList(selectedIndex - PageItems)
       /\ lastEvent' = "ctrl-d" =>
             selectedIndex' = ClampToList(selectedIndex + HalfPageItems)
       /\ lastEvent' = "ctrl-u" =>
             selectedIndex' = ClampToList(selectedIndex - HalfPageItems)
       /\ (lastEvent' \in {"pagedown", "pageup", "ctrl-d", "ctrl-u"}
             /\ selectedIndex' # selectedIndex) => effects' = "pending"]_vars

\* a page of 2 rows over three items of height 2 is one item
C29_Witness ==
    /\ lastEvent = "pagedown" /\ selectedIndex = 1
    /\ viewportHeight = 2 /\ itemCount = 3 /\ totalHeight = 6
    /\ effects = "pending"

\* --------------------------------------------------------- height callback
\* every height of the map hs fits the viewport, so the effects settle
FitsViewport(hs) == \A j \in 0..(itemCount - 1) : getHeightOf(hs, j) <= viewportHeight

\* the viewport after the ref callback (index, h) and then the key taking
\* the selection to move(selectedIndex), the effects settled after each
ResolveThenMove(index, h, move(_)) ==
    LET hs == setHeight(heights, index, h)
        a == runEffects(hs, selectedIndex, scrollY, MaxPasses)
    IN runEffects(hs, move(a.selectedIndex), a.scrollY, MaxPasses)

\* the same two events in the other order
MoveThenResolve(index, h, move(_)) ==
    LET hs == setHeight(heights, index, h)
        b == runEffects(heights, move(selectedIndex), scrollY, MaxPasses)
    IN runEffects(hs, b.selectedIndex, b.scrollY, MaxPasses)

\* C28: the height callback is idempotent, and it commutes with a selection
\* key that neither leaves nor reaches its item: both orders end in the same
\* selectedIndex, scrollY and heights once the effects have settled
C28_ResolveCommutes ==
    effects = "idle" =>
        \A index \in 0..(itemCount - 1), h \in 0..MaxHeight :
            LET hs == setHeight(heights, index, h)
            IN /\ setHeight(hs, index, h) = hs
               /\ (FitsViewport(heights) /\ FitsViewport(hs)) =>
                     /\ (selectedIndex # index /\ upIndex(selectedIndex) # index) =>
                           ResolveThenMove(index, h, upIndex) = MoveThenResolve(index, h, upIndex)
                     /\ (selectedIndex # index /\ downIndex(selectedIndex) # index) =>
                           ResolveThenMove(index, h, downIndex) = MoveThenResolve(index, h, downIndex)

\* ------------------------------------------------------- measured heights
\* the height the hook uses for a mounted item is a 0 recorded by its ref
\* callback while the node reports another height
ZeroKept(index) ==
    /\ index \in DOMAIN itemRefs /\ index \in DOMAIN heights
    /\ heights[index] = 0 /\ getHeight(index) # itemRefs[index].height

\* C26: a height first measured as 0 does not stay: once the layout reports
\* another height, the height the viewport uses for the item comes to equal it
C26_ZeroNotKept ==
    \A index \in 0..(MaxDetailItems - 1) : ZeroKept(index) ~> ~ZeroKept(index)

\* C27: right after the collapsed flag of an item is toggled the viewport
\* uses the default height for it, in the hook and in the inline viewport
C27_ToggleForgetsHeight ==
    [][lastEvent' = "space" =>
          /\ getItemHeightOf(itemRefs', selectedIndex) = defaultItemHeight
          /\ getHeightOf(heights', selectedIndex) = defaultItemHeight]_vars

\* ------------------------------------------------------------ group shape
\* the groups gs keep every user message of msgs alone, and no group holds
\* two assistant messages with a user message between them
UsersSolo(gs) ==
    /\ \A i \in 1..Len(msgs) :
          msgs[i].type = "user" =>
              Cardinality({g \in 1..Len(gs) : gs[g] = <<i>>}) = 1
    /\ \A g \in 1..Len(gs) :
          /\ \A k \in 1..Len(gs[g]) :
                msgs[gs[g][k]].type = "user" => Len(gs[g]) = 1
          /\ \A a, b \in 1..Len(gs[g]) :
                \A u \in 1..Len(msgs) :
                    (gs[g][a] < u /\ u < gs[g][b]) => msgs[u].type # "user"

\* C31: every user message forms a group of exactly one message, and two
\* assistant messages separated by a user message are never in one group,
\* for groupMessages and for its IndexedMessage variant
C31_UserMessagesSolo ==
    grouped => (UsersSolo(groups) /\ UsersSolo(indexedGroups))

\* a tool_use message, a user message and a thinking-only message: without
\* the user message the three would be one group
C31_Witness ==
    /\ grouped /\ Len(msgs) = 3
    /\ hasToolUse(msgs[1]) /\ msgs[2].type = "user" /\ isThinkingOnly(msgs[3])
    /\ groups = <<(<<1>>), (<<2>>), (<<3>>)>>

\* C37: every group of groupMessages is non-empty, and a group of more than
\* one message holds assistant messages only, at least one of them with a
\* tool_use block, and ends with a tool_use or thinking-only message
C37_GroupShape ==
    grouped =>
        \A g \in 1..Len(groups) :
            LET ms == groups[g] IN
            /\ Len(ms) >= 1
            /\ Len(ms) > 1 =>
                  /\ \A k \in 1..Len(ms) : msgs[ms[k]].type = "assistant"
                  /\ \E k \in 1..Len(ms) : hasToolUse(msgs[ms[k]])
                  /\ \/ hasToolUse(msgs[ms[Len(ms)]])
                     \/ isThinkingOnly(msgs[ms[Len(ms)]])

\* a group that ends with a thinking-only message, followed by a text message
C37_Witness ==
    /\ grouped /\ Len(msgs) = 4 /\ Len(groups) = 2
    /\ Len(groups[1]) = 3 /\ isThinkingOnly(msgs[3]) /\ ~hasToolUse(msgs[2])
    /\ groups[2] = <<4>>

\* ------------------------------------------------------------ message stream
\* C32: a line with isMeta = true, of type user or assistant, adds no
\* message to the stream
C32_MetaAddsNoMessage ==
    [][(lineCount' = lineCount + 1 /\ entry'.isMeta) => messages' = messages]_vars

\* C33: a file that loadConversations keeps (messageCount > 0 and not
\* warm-up only) has a non-empty message stream
C33_IndexedHasMessages ==
    isPushed(indexed) => messages # <<>>

\* C34: every key of messageAgentIds is the 0-based index of an assistant
\* message of the stream
C34_LinkKeysAreAssistants ==
    \A k \in DOMAIN messageAgentIds :
        /\ 0 <= k /\ k < Len(messages)
        /\ messages[k + 1] = "assistant"

\* a link on the second of two assistant messages, with a user message
\* emitted after it
C34_Witness ==
    /\ 1 \in DOMAIN messageAgentIds /\ Len(messages) = 3
    /\ messages = <<"assistant", "assistant", "user">>

Values(map) == {map[k] : k \in DOMAIN map}

\* C35: no sidechain link is lost: the agentId of a non-meta user line read
\* after an emitted assistant message is a value of messageAgentIds from then
\* on, whatever agentIds later lines carry
C35_NoLinkLost ==
    [][/\ (/\ lineCount' = lineCount + 1
           /\ entry'.kind = "user" /\ entry'.hasMessage /\ ~entry'.isMeta
           /\ entry'.agentId # NoAgent /\ lastAssistantIndex >= 0)
          => entry'.agentId \in Values(messageAgentIds')
       /\ Values(messageAgentIds) \subseteq Values(messageAgentIds')]_vars

\* ---------------------------------------------------------- view and stack
\* C36: in the stack-based App the detail view is shown exactly when the
\* conversation stack is non-empty, whatever the order of key events and
\* sidechain-load completions
C36_DetailIffStack ==
    (view = "detail") <=> (conversationStack # <<>>)

\* ------------------------------------------------------------- list round trip
\* C38: a conversation opened from the list at (selectedIndex = s,
\* scrollY = y): after going back the list shows selectedIndex = s and
\* scrollY = y again
C38_BackRestoresList ==
    (view = "list" /\ trip.at = "back" /\ ListCommitted /\ effects = "idle")
        => (selectedIndex = trip.s /\ scrollY = trip.y)

====
